---- MODULE Spec2Model ----
(***************************************************************************)
(* Frecency scoring engine and visit tracker of the zoxidian plugin.       *)
(*                                                                         *)
(* Scores are JavaScript numbers in the source.  They are modelled as      *)
(* exact rationals <<n, d>> in lowest terms (d > 0), so that the scaling   *)
(* done by aging (a multiplication by a non-integer factor) is computed    *)
(* and compared exactly; the rounding of IEEE doubles is not modelled.     *)
(***************************************************************************)
EXTENDS Integers, Sequences, FiniteSets, TLC

(***************************************************************************)
(* Bounds of the model.                                                    *)
(***************************************************************************)
MaxInitScore == 7      \* largest score of a record set handed to applyAging
MaxAgeArg    == 5      \* largest maxAge argument handed to applyAging
MaxDen       == 40     \* largest denominator of a score kept by the tracker
MaxScore     == 3      \* largest score a visit may produce while aging is off
MaxTicks     == 2      \* number of clock ticks
TickMs       == 250    \* milliseconds per clock tick
MaxResumes   == 1      \* async handlers that may be suspended at once
ScenarioMaxAge == 3    \* largest maxAge of the end-to-end aging scenario
MaxLoadedScore == 2    \* largest score of a record loaded from disk
MaxRankItems == 3      \* largest settings.maxItems of the ranking queries

Keys == {"a.md", "b.md", "c.md"}

\* The paths the host's events are about in the tracker specification.
Paths == {"a.md", "b.md"}

(***************************************************************************)
(* Exact rational arithmetic for the score field.                          *)
(***************************************************************************)
Abs(x) == IF x < 0 THEN -x ELSE x

RECURSIVE GCD(_, _)
GCD(x, y) == IF y = 0 THEN x ELSE GCD(y, x % y)

Rat(n, d) ==
    LET g == GCD(Abs(n), d)
    IN  <<n \div g, d \div g>>

Num(n)     == <<n, 1>>
Zero       == Num(0)
One        == Num(1)
Add(x, y)  == Rat(x[1] * y[2] + y[1] * x[2], x[2] * y[2])
Sub(x, y)  == Rat(x[1] * y[2] - y[1] * x[2], x[2] * y[2])
Mul(x, y)  == Rat(x[1] * y[1], x[2] * y[2])
Less(x, y) == x[1] * y[2] < y[1] * x[2]
Leq(x, y)  == x[1] * y[2] <= y[1] * x[2]

(***************************************************************************)
(* Record sets: a function from the tracked paths to FileEntry records.    *)
(***************************************************************************)
FileEntry(score, lastAccess) == [score |-> score, lastAccess |-> lastAccess]

NoFiles == [p \in {} |-> FileEntry(Zero, 0)]

RECURSIVE SumScores(_, _)
SumScores(files, paths) ==
    IF paths = {} THEN Zero
    ELSE LET p == CHOOSE q \in paths : TRUE
         IN  Add(files[p].score, SumScores(files, paths \ {p}))

\* Object.values(files).reduce((sum, e) => sum + e.score, 0)
getTotalScore(files) == SumScores(files, DOMAIN files)

(***************************************************************************)
(* applyAging (frecency.ts).                                               *)
(***************************************************************************)
\* A scale factor that divides by the 0.9 headroom instead of multiplying.
AgingScaleInverted(maxAge, total) == Rat(maxAge * 10 * total[2], 9 * total[1])

\* const scale = (maxAge * 0.9) / total;
AgingScale(maxAge, total) == Rat(maxAge * 9 * total[2], 10 * total[1])

\* A flat decrement in place of the proportional scaling.
ScaledScoreFlat(score, scale) == Sub(score, Sub(One, scale))

\* entry.score *= scale;
ScaledScore(score, scale) == Mul(score, scale)

\* A pruning test that also drops a record landing exactly on 1.
IsPrunedInclusive(score) == Leq(score, One)

\* A pruning test that drops only records without any score left.
IsPrunedNonPositive(score) == Leq(score, Zero)

\* if (entry.score < 1) delete files[path];
IsPruned(score) == Less(score, One)

\* The scaling loop stamping every surviving record with a fresh lastAccess.
ScaleAndPruneStamped(files, maxAge, total) ==
    LET scale  == AgingScale(maxAge, total)
        scaled == [p \in DOMAIN files |->
                      FileEntry(ScaledScore(files[p].score, scale),
                                files[p].lastAccess + 1)]
        kept   == {p \in DOMAIN files : ~IsPruned(scaled[p].score)}
    IN  [p \in kept |-> scaled[p]]

\* The scaling loop without the deletion of the records that fall below 1.
ScaleWithoutPrune(files, maxAge, total) ==
    LET scale == AgingScale(maxAge, total)
    IN  [p \in DOMAIN files |->
            [files[p] EXCEPT !.score = ScaledScore(@, scale)]]

\* The scaling loop of applyAging, run when total > maxAge.
ScaleAndPrune(files, maxAge, total) ==
    LET scale  == AgingScale(maxAge, total)
        scaled == [p \in DOMAIN files |->
                      [files[p] EXCEPT !.score = ScaledScore(@, scale)]]
        kept   == {p \in DOMAIN files : ~IsPruned(scaled[p].score)}
    IN  [p \in kept |-> scaled[p]]

\* applyAging with the ceiling test written as total < maxAge.
applyAgingStrict(files, maxAge) ==
    IF maxAge <= 0 THEN files
    ELSE LET total == getTotalScore(files)
         IN  IF Less(total, Num(maxAge)) THEN files
             ELSE ScaleAndPrune(files, maxAge, total)

\* applyAging without the maxAge <= 0 guard.
applyAgingNoGuard(files, maxAge) ==
    LET total == getTotalScore(files)
    IN  IF Leq(total, Num(maxAge)) THEN files
        ELSE ScaleAndPrune(files, maxAge, total)

applyAging(files, maxAge) ==
    IF maxAge <= 0 THEN files
    ELSE LET total == getTotalScore(files)
         IN  IF Leq(total, Num(maxAge)) THEN files
             ELSE ScaleAndPrune(files, maxAge, total)

(***************************************************************************)
(* getFrecency (frecency.ts).                                              *)
(***************************************************************************)
HOUR == 60 * 60 * 1000
DAY  == 24 * HOUR
WEEK == 7 * DAY

\* getFrecency with the bucket tests written as elapsed <= bound.
getFrecencyInclusive(entry, t) ==
    LET elapsed == t - entry.lastAccess
    IN  IF elapsed <= HOUR THEN Mul(entry.score, Num(4))
        ELSE IF elapsed <= DAY THEN Mul(entry.score, Num(2))
        ELSE IF elapsed <= WEEK THEN Mul(entry.score, Rat(1, 2))
        ELSE Mul(entry.score, Rat(1, 4))

getFrecency(entry, t) ==
    LET elapsed == t - entry.lastAccess
    IN  IF elapsed < HOUR THEN Mul(entry.score, Num(4))
        ELSE IF elapsed < DAY THEN Mul(entry.score, Num(2))
        ELSE IF elapsed < WEEK THEN Mul(entry.score, Rat(1, 2))
        ELSE Mul(entry.score, Rat(1, 4))

(***************************************************************************)
(* State.                                                                  *)
(***************************************************************************)
VARIABLES
    files,               \* plugin.files
    maxAge,              \* settings.maxAge, or the maxAge argument of the last call
    recordOnEveryVisit,  \* settings.recordOnEveryVisit
    openInLeaf,          \* plugin.openInLeaf
    leaves,              \* host: the paths shown by some workspace leaf
    now,                 \* Date.now(), in milliseconds
    timer,               \* deadline of the pending debounce timeout, or NoTimer
    saved,               \* the record set last handed to saveData
    view,                \* plugin.view is set
    drawn,               \* the record set read by the last redraw of the view
    resumes,             \* async UI handlers suspended at `await persistData()`
    calls,               \* calls made by the plugin method that ran last
    activeFilePath,      \* view.activeFilePath, NoActive for null
    maxItems,            \* settings.maxItems
    excludePaths,        \* settings.excludePaths
    keyOrder,            \* Object.keys(files) as the ranking query enumerates it
    ranking,             \* paths of the entries the last ranking query returned
    phase,               \* position of onload: "loading" or "ready"
    raw,                 \* the blob loadData resolves to
    pendingMaxAge,       \* settings tab: pendingMaxAge, NoPending for null
    frecency,            \* value returned by the last getFrecency call
    pre,                 \* the record set as it was when the last call began
    orig,                \* the record set the behaviour started from
    lastOp               \* the function called last (function-level specs)

vars == <<files, maxAge, recordOnEveryVisit, openInLeaf, leaves, now, timer,
          saved, view, drawn, resumes, calls, activeFilePath, maxItems,
          excludePaths, keyOrder, ranking, phase, raw, pendingMaxAge,
          frecency, pre, orig, lastOp>>

\* The operation that ran last and the path it was about; for recordVisit
\* the path and whether it was in openInLeaf, for handleRename both paths.
Op(name, path) == <<name, path>>

\* The operation is recordVisit(path).
IsVisitOf(op, path) == op[1] = "recordVisit" /\ op[2][1] = path

\* The operation is handleRename(oldPath, newPath).
IsRenameOf(op, oldPath, newPath) ==
    op[1] = "handleRename" /\ op[2] = <<oldPath, newPath>>

NoTimer == -1
DebounceMs == 500
NoCalls == [debouncedPersist |-> 0, persistData |-> 0, redraw |-> 0]

\* private activeFilePath: string | null = null;
NoActive == "null"

\* DEFAULT_SETTINGS.maxItems and DEFAULT_SETTINGS.excludePaths
DefaultMaxItems == 50
DefaultExcludePaths == ""

\* The settings and results of the ranking query where no query is made.
RankingIdle ==
    /\ maxItems = DefaultMaxItems
    /\ excludePaths = DefaultExcludePaths
    /\ keyOrder = <<>>
    /\ ranking = <<>>

RankingUnchanged == UNCHANGED <<maxItems, excludePaths, keyOrder, ranking>>

\* loadData resolving to null: no data file.
NoBlob == [kind |-> "null"]

\* let pendingMaxAge: number | null = null;
NoPending == -1

\* onload has run to its end and the settings tab holds no pending value.
SessionIdle ==
    /\ phase = "ready"
    /\ raw = NoBlob
    /\ pendingMaxAge = NoPending

SessionUnchanged == UNCHANGED <<phase, raw, pendingMaxAge>>

\* The variables a function-level specification does not use.
TrackerIdle ==
    /\ recordOnEveryVisit = FALSE
    /\ openInLeaf = {}
    /\ leaves = {}
    /\ timer = NoTimer
    /\ saved = NoFiles
    /\ view = FALSE
    /\ drawn = NoFiles
    /\ resumes = 0
    /\ calls = NoCalls
    /\ activeFilePath = NoActive

TrackerUnchanged ==
    UNCHANGED <<recordOnEveryVisit, openInLeaf, leaves, timer, saved, view,
                drawn, resumes, calls, activeFilePath>>

(***************************************************************************)
(* applyAging as a function of its arguments: the record set is drawn from *)
(* the record sets over Keys with whole scores, and every call draws its   *)
(* maxAge argument; further calls age the already aged set.                *)
(***************************************************************************)
InitScores == {Num(n) : n \in 1..MaxInitScore}

AgingInputs ==
    UNION {[ps -> {FileEntry(s, la) : s \in InitScores, la \in {0, 1}}] :
              ps \in SUBSET Keys}

AgingArgs == (-1)..MaxAgeArg

AgingInit ==
    /\ files \in AgingInputs
    /\ maxAge = 0
    /\ pre = files
    /\ orig = files
    /\ lastOp = Op("init", "")
    /\ now = 0
    /\ frecency = Zero
    /\ TrackerIdle
    /\ RankingIdle
    /\ SessionIdle

AgingCall(m) ==
    /\ pre' = files
    /\ maxAge' = m
    /\ files' = applyAging(files, m)
    /\ lastOp' = Op("applyAging", "")
    /\ UNCHANGED <<orig, now, frecency>>
    /\ TrackerUnchanged
    /\ RankingUnchanged
    /\ SessionUnchanged

AgingNext == \E m \in AgingArgs : AgingCall(m)

AgingSpec == AgingInit /\ [][AgingNext]_vars

Aged == lastOp[1] = "applyAging"

(***************************************************************************)
(* getFrecency as a function of its arguments: one entry and the times of  *)
(* the calls, chosen around the bucket boundaries (a negative elapsed time *)
(* included).                                                              *)
(***************************************************************************)
FrecencyScores == {Num(1), Num(3), Num(10), Rat(27, 10)}
FrecencyAccess == {0, HOUR, WEEK}
FrecencyElapsed ==
    {-1, 0, 1, HOUR - 1, HOUR, HOUR + 1, DAY - 1, DAY, DAY + 1,
     WEEK - 1, WEEK, WEEK + 1}
FrecencyNows == {la + e : la \in FrecencyAccess, e \in FrecencyElapsed}

FrecencyInit ==
    /\ \E s \in FrecencyScores, la \in FrecencyAccess :
           files = [p \in {"a.md"} |-> FileEntry(s, la)]
    /\ now \in FrecencyNows
    /\ frecency = Zero
    /\ maxAge = 0
    /\ pre = files
    /\ orig = files
    /\ lastOp = Op("init", "")
    /\ TrackerIdle
    /\ RankingIdle
    /\ SessionIdle

FrecencyCall(t) ==
    /\ now' = t
    /\ frecency' = getFrecency(files["a.md"], t)
    /\ lastOp' = Op("getFrecency", "")
    /\ UNCHANGED <<files, maxAge, pre, orig>>
    /\ TrackerUnchanged
    /\ RankingUnchanged
    /\ SessionUnchanged

FrecencyNext == \E t \in FrecencyNows : FrecencyCall(t)

FrecencySpec == FrecencyInit /\ [][FrecencyNext]_vars

(***************************************************************************)
(* The visit tracker (main.ts) and the host events that drive it.          *)
(***************************************************************************)
\* The skip test left out.
ShouldSkipNever(everyVisit, wasAlreadyOpen) == FALSE

\* The skip test without the recordOnEveryVisit setting.
ShouldSkipIgnoreSetting(everyVisit, wasAlreadyOpen) == wasAlreadyOpen

\* The skip test with the negation of recordOnEveryVisit left out.
ShouldSkipNoNegation(everyVisit, wasAlreadyOpen) == everyVisit /\ wasAlreadyOpen

\* if (!this.settings.recordOnEveryVisit && wasAlreadyOpen) return;
ShouldSkip(everyVisit, wasAlreadyOpen) == ~everyVisit /\ wasAlreadyOpen

\* A debounce that schedules nothing.
DebounceDropped(pending, t) == pending

\* A debounce that keeps the timeout that is already pending.
DebounceNoReset(pending, t) == IF pending = NoTimer THEN t + DebounceMs ELSE pending

\* clearTimeout(timer); timer = setTimeout(..., ms): the deadline of the one
\* pending timeout after a call at time t.
Debounce(pending, t) == t + DebounceMs

\* openInLeaf left as it was by recordVisit.
MarkOpenForgotten(open, path) == open

\* openInLeaf replaced by the visited path alone.
MarkOpenOnly(open, path) == {path}

\* this.openInLeaf.add(file.path);
MarkOpen(open, path) == open \cup {path}

\* The score mutation with lastAccess of an existing record left alone.
VisitMutationKeepAccess(f, path, t) ==
    IF path \in DOMAIN f
    THEN [f EXCEPT ![path] = FileEntry(Add(@.score, One), @.lastAccess)]
    ELSE [p \in DOMAIN f \cup {path} |->
             IF p = path THEN FileEntry(One, t) ELSE f[p]]

\* The score mutation of recordVisit: increment or create.
VisitMutation(f, path, t) ==
    IF path \in DOMAIN f
    THEN [f EXCEPT ![path] = FileEntry(Add(@.score, One), t)]
    ELSE [p \in DOMAIN f \cup {path} |->
             IF p = path THEN FileEntry(One, t) ELSE f[p]]

\* recordVisit with applyAging run before the score mutation.
CountVisitAgingFirst(f, path, t, m) == VisitMutation(applyAging(f, m), path, t)

\* The record set a counted recordVisit leaves: mutation, then applyAging.
CountVisit(f, path, t, m) == applyAging(VisitMutation(f, path, t), m)

\* The early return of handleRename and handleDelete left out.
IsTrackedAlways(f, path) == TRUE

\* const entry = this.files[path]; if (!entry) return;
IsTracked(f, path) == path \in DOMAIN f

\* The spread { ...entry }; of an undefined entry it is a record without
\* visits.
SpreadEntry(f, path) ==
    IF path \in DOMAIN f THEN f[path] ELSE FileEntry(Zero, 0)

\* handleRename without `delete this.files[oldPath]`.
RenameFilesKeepOld(f, oldPath, newPath) ==
    [p \in DOMAIN f \cup {newPath} |->
        IF p = newPath THEN SpreadEntry(f, oldPath) ELSE f[p]]

\* handleRename's update of the record set: files[newPath] = { ...entry };
\* delete this.files[oldPath];
RenameFiles(f, oldPath, newPath) ==
    [p \in (DOMAIN f \cup {newPath}) \ {oldPath} |->
        IF p = newPath THEN SpreadEntry(f, oldPath) ELSE f[p]]

\* openInLeaf with the new path added by a rename.
RenameOpenAddsNew(open, oldPath, newPath) == open \cup {newPath}

\* handleRename has no statement about openInLeaf.
RenameOpen(open, oldPath, newPath) == open

\* handleDelete emptying the record set.
DeleteFilesAll(f, path) == [p \in {} |-> f[p]]

\* The record left in place.
DeleteFilesNone(f, path) == f

\* delete this.files[path]
DeleteFiles(f, path) == [p \in DOMAIN f \ {path} |-> f[p]]

\* The layout-change handler keeping every path of openInLeaf.
PruneOpenKeepAll(open, current) == open

\* for (const path of this.openInLeaf) if (!current.has(path)) delete
PruneOpen(open, current) == {p \in open : p \in current}

\* The visit is within the bounds of the model.
WithinBounds(f) ==
    \A p \in DOMAIN f :
        /\ f[p].score[2] <= MaxDen
        /\ Leq(f[p].score, Num(MaxScore))

TrackerMaxAges == {0, 3}

TrackerInit ==
    /\ files = NoFiles
    /\ maxAge \in TrackerMaxAges
    /\ recordOnEveryVisit \in BOOLEAN
    /\ leaves \in SUBSET Paths
    /\ openInLeaf = leaves
    /\ now = 0
    /\ timer = NoTimer
    /\ saved = NoFiles
    /\ view = FALSE
    /\ drawn = NoFiles
    /\ resumes = 0
    /\ calls = NoCalls
    /\ activeFilePath = NoActive
    /\ RankingIdle
    /\ SessionIdle
    /\ frecency = Zero
    /\ pre = NoFiles
    /\ orig = NoFiles
    /\ lastOp = Op("init", "")

FunctionLevelUnchanged ==
    /\ UNCHANGED <<frecency, pre, orig>>
    /\ RankingUnchanged
    /\ SessionUnchanged

\* The clock advances.
Tick ==
    /\ now + TickMs <= MaxTicks * TickMs
    /\ now' = now + TickMs
    /\ calls' = NoCalls
    /\ UNCHANGED <<files, maxAge, recordOnEveryVisit, openInLeaf, leaves,
                   timer, saved, view, drawn, resumes, activeFilePath>>
    /\ lastOp' = Op("tick", "")
    /\ FunctionLevelUnchanged

\* this.app.workspace.getActiveFile()?.path ?? null: the host's active file
\* is one of the files shown by a leaf, or none.
ActiveFileOf(shown) == shown \cup {NoActive}

\* The host opens the side panel: the view is created, onOpen seeds
\* activeFilePath and redraws.
ViewOpen ==
    /\ ~view
    /\ view' = TRUE
    /\ activeFilePath' \in ActiveFileOf(leaves)
    /\ drawn' = files
    /\ calls' = NoCalls
    /\ UNCHANGED <<files, maxAge, recordOnEveryVisit, openInLeaf, leaves,
                   now, timer, saved, resumes>>
    /\ lastOp' = Op("viewOpen", "")
    /\ FunctionLevelUnchanged

\* file-open event for `path`: recordVisit, then the view's own file-open
\* handler redraws.
RecordVisit(path) ==
    LET wasAlreadyOpen == path \in openInLeaf
        skip == ShouldSkip(recordOnEveryVisit, wasAlreadyOpen)
        after == CountVisit(files, path, now, maxAge)
    IN  /\ leaves' = leaves \cup {path}
        /\ openInLeaf' = MarkOpen(openInLeaf, path)
        /\ IF skip
           THEN /\ files' = files
                /\ timer' = timer
                /\ calls' = NoCalls
           ELSE /\ WithinBounds(after)
                /\ files' = after
                /\ timer' = Debounce(timer, now)
                /\ calls' = [debouncedPersist |-> 1, persistData |-> 0,
                             redraw |-> IF view THEN 1 ELSE 0]
        /\ drawn' = IF view THEN files' ELSE drawn
        /\ activeFilePath' = IF view THEN path ELSE activeFilePath
        /\ UNCHANGED <<maxAge, recordOnEveryVisit, now, saved, view, resumes>>
        /\ lastOp' = Op("recordVisit", <<path, wasAlreadyOpen>>)
        /\ FunctionLevelUnchanged

\* layout-change event after the host closed the leaves showing `closed`.
LayoutChange(closed) ==
    /\ leaves' = leaves \ closed
    /\ openInLeaf' = PruneOpen(openInLeaf, leaves')
    /\ calls' = NoCalls
    /\ UNCHANGED <<files, maxAge, recordOnEveryVisit, now, timer, saved,
                   view, drawn, resumes, activeFilePath>>
    /\ lastOp' = Op("layoutChange", "")
    /\ FunctionLevelUnchanged

\* vault rename event: handleRename(oldPath, newPath).
HandleRename(oldPath, newPath) ==
    /\ leaves' = IF oldPath \in leaves
                 THEN (leaves \ {oldPath}) \cup {newPath} ELSE leaves
    /\ IF ~IsTracked(files, oldPath)
       THEN /\ calls' = NoCalls
            /\ UNCHANGED <<files, saved, drawn>>
       ELSE /\ files' = RenameFiles(files, oldPath, newPath)
            /\ saved' = files'
            /\ drawn' = IF view THEN files' ELSE drawn
            /\ calls' = [debouncedPersist |-> 0, persistData |-> 1,
                         redraw |-> IF view THEN 1 ELSE 0]
    /\ openInLeaf' = RenameOpen(openInLeaf, oldPath, newPath)
    /\ UNCHANGED <<maxAge, recordOnEveryVisit, now, timer, view, resumes,
                   activeFilePath>>
    /\ lastOp' = Op("handleRename", <<oldPath, newPath>>)
    /\ FunctionLevelUnchanged

\* vault delete event: handleDelete(path).
HandleDelete(path) ==
    /\ leaves' = leaves \ {path}
    /\ IF ~IsTracked(files, path)
       THEN /\ calls' = NoCalls
            /\ UNCHANGED <<files, saved, drawn>>
       ELSE /\ files' = DeleteFiles(files, path)
            /\ saved' = files'
            /\ drawn' = IF view THEN files' ELSE drawn
            /\ calls' = [debouncedPersist |-> 0, persistData |-> 1,
                         redraw |-> IF view THEN 1 ELSE 0]
    /\ activeFilePath' = IF view /\ activeFilePath = path
                         THEN NoActive ELSE activeFilePath
    /\ UNCHANGED <<maxAge, recordOnEveryVisit, openInLeaf, now, timer, view,
                   resumes>>
    /\ lastOp' = Op("handleDelete", path)
    /\ FunctionLevelUnchanged

\* "Remove from list" of a row the view has drawn: removeEntry, then
\* persistData; the redraw follows the await.
RemoveEntry(path) ==
    /\ view
    /\ path \in DOMAIN drawn
    /\ resumes < MaxResumes
    /\ files' = DeleteFiles(files, path)
    /\ saved' = files'
    /\ resumes' = resumes + 1
    /\ calls' = [debouncedPersist |-> 0, persistData |-> 1, redraw |-> 0]
    /\ UNCHANGED <<maxAge, recordOnEveryVisit, openInLeaf, leaves, now, timer,
                   view, drawn, activeFilePath>>
    /\ lastOp' = Op("removeEntry", path)
    /\ FunctionLevelUnchanged

\* "Clear all data" button: clearData, then persistData; the redraw follows
\* the await.
ClearData ==
    /\ resumes < MaxResumes
    /\ files' = NoFiles
    /\ saved' = files'
    /\ resumes' = resumes + 1
    /\ calls' = [debouncedPersist |-> 0, persistData |-> 1, redraw |-> 0]
    /\ UNCHANGED <<maxAge, recordOnEveryVisit, openInLeaf, leaves, now, timer,
                   view, drawn, activeFilePath>>
    /\ lastOp' = Op("clearData", "")
    /\ FunctionLevelUnchanged

\* A suspended UI handler resumes after its await and redraws the view.
Resume ==
    /\ resumes > 0
    /\ resumes' = resumes - 1
    /\ drawn' = IF view THEN files ELSE drawn
    /\ calls' = NoCalls
    /\ UNCHANGED <<files, maxAge, recordOnEveryVisit, openInLeaf, leaves,
                   now, timer, saved, view, activeFilePath>>
    /\ lastOp' = Op("resume", "")
    /\ FunctionLevelUnchanged

\* The debounce timeout fires: persistData writes the record set as it is.
TimerFire ==
    /\ timer # NoTimer
    /\ now >= timer
    /\ timer' = NoTimer
    /\ saved' = files
    /\ calls' = [debouncedPersist |-> 0, persistData |-> 1, redraw |-> 0]
    /\ UNCHANGED <<files, maxAge, recordOnEveryVisit, openInLeaf, leaves,
                   now, view, drawn, resumes, activeFilePath>>
    /\ lastOp' = Op("timerFire", "")
    /\ FunctionLevelUnchanged

Next ==
    \/ Tick
    \/ ViewOpen
    \/ \E p \in Paths : RecordVisit(p)
    \/ \E c \in {{}} \cup {{p} : p \in leaves} : LayoutChange(c)
    \/ \E o \in Paths, n \in Paths : HandleRename(o, n)
    \/ \E p \in Paths : HandleDelete(p)
    \/ \E p \in Paths : RemoveEntry(p)
    \/ ClearData
    \/ Resume
    \/ TimerFire

Init == TrackerInit

Spec == Init /\ [][Next]_vars

(***************************************************************************)
(* The end-to-end aging scenario: the plugin starts without data and       *)
(* without open leaves, and every file-open event is for a path that has   *)
(* not been opened before, so openInLeaf holds the paths visited so far.   *)
(***************************************************************************)
ScenarioKeys == Keys \cup {"d.md", "e.md"}

ScenarioMaxAges == 1..ScenarioMaxAge

ScenarioInit ==
    /\ files = NoFiles
    /\ maxAge \in ScenarioMaxAges
    /\ recordOnEveryVisit \in BOOLEAN
    /\ leaves = {}
    /\ openInLeaf = leaves
    /\ now = 0
    /\ timer = NoTimer
    /\ saved = NoFiles
    /\ view = FALSE
    /\ drawn = NoFiles
    /\ resumes = 0
    /\ calls = NoCalls
    /\ activeFilePath = NoActive
    /\ RankingIdle
    /\ SessionIdle
    /\ frecency = Zero
    /\ pre = NoFiles
    /\ orig = NoFiles
    /\ lastOp = Op("init", "")

\* file-open event for a path no leaf has shown yet.
FirstVisit(path) ==
    /\ path \notin openInLeaf
    /\ RecordVisit(path)

ScenarioNext ==
    \/ Tick
    \/ \E p \in ScenarioKeys : FirstVisit(p)

ScenarioSpec == ScenarioInit /\ [][ScenarioNext]_vars

(***************************************************************************)
(* The vault events on a plugin that loaded its data from disk: the record *)
(* set over Keys that initData read, the leaves the workspace restored,    *)
(* then rename and delete events and removeEntry calls for any of the      *)
(* keys.                                                                   *)
(***************************************************************************)
LoadedScores == {Num(n) : n \in 1..MaxLoadedScore}

LoadedFiles ==
    UNION {[ps -> {FileEntry(s, la) : s \in LoadedScores, la \in {0, 1}}] :
              ps \in SUBSET Keys}

VaultInit ==
    /\ files \in LoadedFiles
    /\ maxAge = 0
    /\ recordOnEveryVisit = FALSE
    /\ leaves \in SUBSET Paths
    /\ openInLeaf = leaves
    /\ now = 1
    /\ timer = NoTimer
    /\ saved = files
    /\ view \in BOOLEAN
    /\ drawn = IF view THEN files ELSE NoFiles
    /\ resumes = 0
    /\ calls = NoCalls
    /\ activeFilePath \in IF view THEN ActiveFileOf(leaves) ELSE {NoActive}
    /\ RankingIdle
    /\ SessionIdle
    /\ frecency = Zero
    /\ pre = NoFiles
    /\ orig = NoFiles
    /\ lastOp = Op("init", "")

\* A call of removeEntry(path) on its own, for any path.
RemoveEntryCall(path) ==
    /\ files' = DeleteFiles(files, path)
    /\ calls' = NoCalls
    /\ UNCHANGED <<maxAge, recordOnEveryVisit, openInLeaf, leaves, now, timer,
                   saved, view, drawn, resumes, activeFilePath>>
    /\ lastOp' = Op("removeEntry", path)
    /\ FunctionLevelUnchanged

VaultNext ==
    \/ \E o \in Keys, n \in Keys : HandleRename(o, n)
    \/ \E p \in Keys : HandleDelete(p)
    \/ \E p \in Keys : RemoveEntryCall(p)

VaultSpec == VaultInit /\ [][VaultNext]_vars

(***************************************************************************)
(* getSortedEntries (main.ts) as a function of the record set, the order   *)
(* Object.entries enumerates it in, the settings and the time of the call. *)
(***************************************************************************)
\* The exclude patterns of the model: empty, whitespace only, one that does
\* not compile, and three that do.
ExcludePatterns == {"", "  ", "[", "^a", " ^a", "md$"}

\* String.prototype.trim on the patterns of the model.
Trim(pattern) ==
    CASE pattern = "  "  -> ""
      [] pattern = " ^a" -> "^a"
      [] OTHER           -> pattern

\* new RegExp(pattern) returns; it throws a SyntaxError for "[".
RegExpCompiles(pattern) == pattern # "["

\* RegExp.prototype.test of the compiled pattern on a path of Keys.
RegExpTest(pattern, path) ==
    CASE pattern = ""    -> TRUE
      [] pattern = "md$" -> TRUE
      [] pattern = "^a"  -> path = "a.md"
      [] OTHER           -> FALSE

\* excludeRegex === null
NoRegex == "null"

\* The pattern compiled whenever it compiles, blank or not.
ExcludeRegexOfBlank(pattern) ==
    IF RegExpCompiles(pattern) THEN pattern ELSE NoRegex

\* if (excludePaths.trim()) { try { new RegExp(excludePaths) } catch {} }
ExcludeRegex(pattern) ==
    IF Trim(pattern) # "" /\ RegExpCompiles(pattern) THEN pattern ELSE NoRegex

\* .filter(([path]) => !excludeRegex || !excludeRegex.test(path))
IsKept(regex, path) == regex = NoRegex \/ ~RegExpTest(regex, path)

\* A comparator that orders by increasing frecency.
CompareAscending(fa, fb) == Sub(fa, fb)

\* (a, b) => b.frecency - a.frecency
CompareFrecency(fa, fb) == Sub(fb, fa)

\* One step of the stable sort: path goes behind every entry the comparator
\* does not put after it.
InsertSorted(sorted, path, f, t) ==
    LET stays == {i \in 1..Len(sorted) :
                     CompareFrecency(getFrecency(f[sorted[i]], t),
                                     getFrecency(f[path], t))[1] <= 0}
        k == Cardinality(stays)
    IN  SubSeq(sorted, 1, k) \o <<path>> \o SubSeq(sorted, k + 1, Len(sorted))

\* Array.prototype.sort, which is stable.
RECURSIVE StableSort(_, _, _)
StableSort(paths, f, t) ==
    IF paths = <<>> THEN <<>>
    ELSE InsertSorted(StableSort(SubSeq(paths, 1, Len(paths) - 1), f, t),
                      paths[Len(paths)], f, t)

\* Object.entries(files).filter(...).map(...).sort(...)
RankAll(f, order, pattern, t) ==
    LET regex == ExcludeRegex(pattern)
    IN  StableSort(SelectSeq(order, LAMBDA p : IsKept(regex, p)), f, t)

\* .slice(0, maxItems) for maxItems > 0
Slice(seq, limit) ==
    SubSeq(seq, 1, IF limit < Len(seq) THEN limit ELSE Len(seq))

getSortedEntries(f, order, pattern, limit, t) ==
    Slice(RankAll(f, order, pattern, t), limit)

RankScores == {Num(1), Num(2)}
RankAccess == {0, HOUR}
RankNows == {HOUR, DAY}

RankFiles ==
    UNION {[ps -> {FileEntry(sc, la) : sc \in RankScores, la \in RankAccess}] :
              ps \in SUBSET Keys}

\* The orders a set of keys can have been inserted in.
KeyOrders(ps) ==
    {o \in [1..Cardinality(ps) -> ps] :
        \A i \in DOMAIN o, j \in DOMAIN o : i # j => o[i] # o[j]}

RankInit ==
    /\ files \in RankFiles
    /\ keyOrder \in KeyOrders(DOMAIN files)
    /\ maxItems \in 1..MaxRankItems
    /\ excludePaths \in ExcludePatterns
    /\ now \in RankNows
    /\ ranking = <<>>
    /\ maxAge = 0
    /\ frecency = Zero
    /\ pre = NoFiles
    /\ orig = NoFiles
    /\ lastOp = Op("init", "")
    /\ TrackerIdle
    /\ SessionIdle

\* The record set with every score replaced by the frecency computed for it.
RankedFilesDecayed(f, t) ==
    [p \in DOMAIN f |-> FileEntry(getFrecency(f[p], t), f[p].lastAccess)]

\* The record set after the query: .map builds new objects around the
\* entries and getFrecency returns a product, no entry is assigned to.
RankedFiles(f, t) == f

\* A ranking query at time t writes nothing but its result.
RankingReadOnly(t) ==
    /\ now' = t
    /\ pre' = files
    /\ files' = RankedFiles(files, t)
    /\ UNCHANGED <<maxAge, frecency, orig, maxItems, excludePaths, keyOrder>>
    /\ TrackerUnchanged
    /\ SessionUnchanged

\* ZoxidianView.redraw: this.plugin.getSortedEntries()
ViewRanking(t) ==
    /\ ranking' = getSortedEntries(files, keyOrder, excludePaths, maxItems, t)
    /\ lastOp' = Op("redraw", "")
    /\ RankingReadOnly(t)

\* ZoxidianSearchModal.getSuggestions: this.plugin.getSortedEntries(false);
\* getSortedEntries declares no parameter, so the argument is dropped.
ModalRanking(t) ==
    /\ ranking' = getSortedEntries(files, keyOrder, excludePaths, maxItems, t)
    /\ lastOp' = Op("getSuggestions", "")
    /\ RankingReadOnly(t)

RankNext ==
    \/ \E t \in RankNows : ViewRanking(t)
    \/ \E t \in RankNows : ModalRanking(t)

RankSpec == RankInit /\ [][RankNext]_vars

(***************************************************************************)
(* onload (main.ts) from the call of initData on: the blob on disk is any  *)
(* of the shapes below, the host opens files while loadData is pending,    *)
(* and the handlers registered after the await react to the events that    *)
(* follow.                                                                 *)
(***************************************************************************)
\* DEFAULT_SETTINGS.maxAge and DEFAULT_SETTINGS.recordOnEveryVisit
DefaultMaxAge == 9000
DefaultRecordOnEveryVisit == FALSE

\* A field of the blob: what typeof and Array.isArray see, and its value (a
\* string as the sequence of its characters).
Field(kind, value) == [kind |-> kind, value |-> value]

RawFilesFields ==
    {Field("undefined", NoFiles), Field("null", NoFiles),
     Field("string", <<"x">>), Field("array", <<1>>),
     Field("object", NoFiles),
     Field("object", [p \in {"a.md"} |-> FileEntry(One, 0)])}

RawSettingsFields ==
    {Field("undefined", <<>>), Field("object", <<>>),
     Field("object", [k \in {"maxAge"} |-> 3]),
     Field("object", [k \in {"recordOnEveryVisit"} |-> TRUE])}

RawBlobs ==
    {NoBlob} \cup
    {[kind |-> "object", files |-> fv, settings |-> sv] :
        fv \in RawFilesFields, sv \in RawSettingsFields}

\* raw?.files ?? {}
initFilesNullish(blob) ==
    IF blob.kind = "null" THEN NoFiles
    ELSE IF blob.files.kind \in {"undefined", "null"} THEN NoFiles
         ELSE blob.files.value

\* typeof raw?.files === "object" && raw.files !== null &&
\* !Array.isArray(raw.files) ? raw.files : {}
initFiles(blob) ==
    IF blob.kind = "null" THEN NoFiles
    ELSE IF /\ blob.files.kind \in {"null", "array", "object"}
            /\ blob.files.kind # "null"
            /\ blob.files.kind # "array"
         THEN blob.files.value
         ELSE NoFiles

\* Object.assign({}, DEFAULT_SETTINGS, raw?.settings ?? {})[name]
initSetting(blob, name, default) ==
    IF blob.kind = "null" THEN default
    ELSE IF blob.settings.kind = "object" /\ name \in DOMAIN blob.settings.value
         THEN blob.settings.value[name]
         ELSE default

\* The handlers are registered whatever the position of onload.
RegisteredEarly(position) == TRUE

\* registerView, registerEvent and addSettingTab come after
\* `await this.initData()`.
Registered(position) == position = "ready"

StartupInit ==
    /\ phase = "loading"
    /\ raw \in RawBlobs
    /\ files = NoFiles
    /\ maxAge = DefaultMaxAge
    /\ recordOnEveryVisit = DefaultRecordOnEveryVisit
    /\ leaves \in SUBSET Paths
    /\ openInLeaf = {}
    /\ now = 0
    /\ timer = NoTimer
    /\ saved = NoFiles
    /\ view = FALSE
    /\ drawn = NoFiles
    /\ resumes = 0
    /\ calls = NoCalls
    /\ activeFilePath = NoActive
    /\ pendingMaxAge = NoPending
    /\ RankingIdle
    /\ frecency = Zero
    /\ pre = NoFiles
    /\ orig = NoFiles
    /\ lastOp = Op("init", "")

\* The host opens a file while loadData is pending: no handler of the plugin
\* is registered yet.
HostOpensFile(path) ==
    /\ ~Registered(phase)
    /\ leaves' = leaves \cup {path}
    /\ calls' = NoCalls
    /\ lastOp' = Op("hostFileOpen", path)
    /\ UNCHANGED <<files, maxAge, recordOnEveryVisit, openInLeaf, now, timer,
                   saved, view, drawn, resumes, activeFilePath, phase, raw,
                   pendingMaxAge, frecency, pre, orig>>
    /\ RankingUnchanged

\* loadData resolves: initData assigns settings and files, and onload goes
\* on to register the view and the handlers and to seed openInLeaf.
InitDataDone ==
    /\ phase = "loading"
    /\ phase' = "ready"
    /\ files' = initFiles(raw)
    /\ maxAge' = initSetting(raw, "maxAge", DefaultMaxAge)
    /\ recordOnEveryVisit' =
           initSetting(raw, "recordOnEveryVisit", DefaultRecordOnEveryVisit)
    /\ openInLeaf' = leaves
    /\ calls' = NoCalls
    /\ lastOp' = Op("initData", "")
    /\ UNCHANGED <<leaves, now, timer, saved, view, drawn, resumes,
                   activeFilePath, raw, pendingMaxAge, frecency, pre, orig>>
    /\ RankingUnchanged

StartupVisit(path) == Registered(phase) /\ RecordVisit(path)

StartupRename(oldPath, newPath) ==
    Registered(phase) /\ HandleRename(oldPath, newPath)

StartupDelete(path) == Registered(phase) /\ HandleDelete(path)

StartupNext ==
    \/ Tick
    \/ \E p \in Paths : HostOpensFile(p)
    \/ InitDataDone
    \/ \E p \in Paths : StartupVisit(p)
    \/ \E o \in Paths, n \in Paths : StartupRename(o, n)
    \/ \E p \in Paths : StartupDelete(p)
    \/ TimerFire

StartupSpec == StartupInit /\ [][StartupNext]_vars

(***************************************************************************)
(* The "Max age" setting of the settings tab (settings.ts): the text field *)
(* with its onChange handler, the Apply button, and the visits recorded    *)
(* while the tab is open and the panel is closed.  A text is the sequence  *)
(* of its characters.                                                      *)
(***************************************************************************)
MaxAgeInputs ==
    {<<"a">>, <<"0">>, <<"-", "1">>, <<" ", "3", ".", "9">>, <<"9", "x">>}

DigitChars == <<"0", "1", "2", "3", "4", "5", "6", "7", "8", "9">>

IsDigit(c) == \E i \in 1..10 : DigitChars[i] = c

DigitValue(c) == (CHOOSE i \in 1..10 : DigitChars[i] = c) - 1

RECURSIVE TrimStart(_)
TrimStart(text) ==
    IF text # <<>> /\ Head(text) = " " THEN TrimStart(Tail(text)) ELSE text

\* The value of the longest prefix of digits of `text`, after `acc`.
RECURSIVE DigitsValue(_, _)
DigitsValue(text, acc) ==
    IF text # <<>> /\ IsDigit(Head(text))
    THEN DigitsValue(Tail(text), 10 * acc + DigitValue(Head(text)))
    ELSE acc

\* parseInt(value, 10): leading white space skipped, an optional sign, the
\* leading digits; NaN when there is no digit.
parseInt(text) ==
    LET t == TrimStart(text)
        signed == t # <<>> /\ Head(t) \in {"-", "+"}
        body == IF signed THEN Tail(t) ELSE t
        sign == IF signed /\ Head(t) = "-" THEN -1 ELSE 1
    IN  IF body # <<>> /\ IsDigit(Head(body))
        THEN [nan |-> FALSE, value |-> sign * DigitsValue(body, 0)]
        ELSE [nan |-> TRUE, value |-> 0]

isNaN(number) == number.nan

\* Every entry is applied at once.
NeedsConfirmationNever(num, total) == FALSE

\* if (num < total)
NeedsConfirmation(num, total) == Less(Num(num), total)

\* The record sets the settings tab is opened on.
SettingsFiles ==
    {f \in LoadedFiles :
        DOMAIN f \subseteq Paths /\ \A p \in DOMAIN f : f[p].lastAccess = 0}

SettingsInit ==
    /\ files \in SettingsFiles
    /\ maxAge = DefaultMaxAge
    /\ recordOnEveryVisit = TRUE
    /\ leaves = {}
    /\ openInLeaf = leaves
    /\ now = 0
    /\ timer = NoTimer
    /\ saved = files
    /\ view = FALSE
    /\ drawn = NoFiles
    /\ resumes = 0
    /\ calls = NoCalls
    /\ activeFilePath = NoActive
    /\ RankingIdle
    /\ SessionIdle
    /\ frecency = Zero
    /\ pre = NoFiles
    /\ orig = NoFiles
    /\ lastOp = Op("init", "")

\* onChange of the text field.
MaxAgeInput(value) ==
    LET num == parseInt(value)
        total == getTotalScore(files)
    IN  /\ IF ~isNaN(num) /\ num.value > 0
           THEN IF NeedsConfirmation(num.value, total)
                THEN /\ pendingMaxAge' = num.value
                     /\ calls' = NoCalls
                     /\ UNCHANGED <<maxAge, files, saved, resumes>>
                ELSE /\ view => resumes < MaxResumes
                     /\ pendingMaxAge' = NoPending
                     /\ maxAge' = num.value
                     /\ files' = applyAging(files, num.value)
                     /\ saved' = files'
                     /\ resumes' = IF view THEN resumes + 1 ELSE resumes
                     /\ calls' = [debouncedPersist |-> 0, persistData |-> 1,
                                  redraw |-> 0]
           ELSE /\ pendingMaxAge' = NoPending
                /\ calls' = NoCalls
                /\ UNCHANGED <<maxAge, files, saved, resumes>>
        /\ UNCHANGED <<recordOnEveryVisit, openInLeaf, leaves, now, timer,
                       view, drawn, activeFilePath, phase, raw, frecency,
                       pre, orig>>
        /\ RankingUnchanged
        /\ lastOp' = Op("maxAgeInput", value)

\* onClick of the Apply button, up to its await.
ApplyClick ==
    /\ phase = "ready"
    /\ IF pendingMaxAge = NoPending
       THEN /\ calls' = NoCalls
            /\ UNCHANGED <<maxAge, files, saved, phase>>
       ELSE /\ maxAge' = pendingMaxAge
            /\ files' = applyAging(files, pendingMaxAge)
            /\ saved' = files'
            /\ phase' = "applying"
            /\ calls' = [debouncedPersist |-> 0, persistData |-> 1,
                         redraw |-> 0]
    /\ UNCHANGED <<recordOnEveryVisit, openInLeaf, leaves, now, timer, view,
                   drawn, resumes, activeFilePath, raw, pendingMaxAge,
                   frecency, pre, orig>>
    /\ RankingUnchanged
    /\ lastOp' = Op("applyClick", "")

\* onClick of the Apply button after its await: redraw, pendingMaxAge = null.
ApplyDone ==
    /\ phase = "applying"
    /\ phase' = "ready"
    /\ pendingMaxAge' = NoPending
    /\ drawn' = IF view THEN files ELSE drawn
    /\ calls' = [debouncedPersist |-> 0, persistData |-> 0,
                 redraw |-> IF view THEN 1 ELSE 0]
    /\ UNCHANGED <<files, maxAge, recordOnEveryVisit, openInLeaf, leaves, now,
                   timer, saved, view, resumes, activeFilePath, raw, frecency,
                   pre, orig>>
    /\ RankingUnchanged
    /\ lastOp' = Op("applyDone", "")

SettingsNext ==
    \/ Tick
    \/ \E p \in Paths : RecordVisit(p)
    \/ TimerFire
    \/ \E v \in MaxAgeInputs : MaxAgeInput(v)
    \/ ApplyClick
    \/ ApplyDone

SettingsSpec == SettingsInit /\ [][SettingsNext]_vars

(***************************************************************************)
(* The plugin over a session in which the host events stop: events arrive  *)
(* until LiveEnd, the clock keeps running while a timeout is pending, and  *)
(* the event loop runs every timeout that is due.                          *)
(***************************************************************************)
LiveTicks == 1

LiveEnd == LiveTicks * TickMs

\* The host still delivers events.
Awake == now < LiveEnd

\* What is typed into the Max age field during the session.
LiveMaxAgeInputs == {<<" ", "3", ".", "9">>}

LiveInit ==
    /\ files = NoFiles
    /\ maxAge = DefaultMaxAge
    /\ recordOnEveryVisit = TRUE
    /\ leaves = {}
    /\ openInLeaf = leaves
    /\ now = 0
    /\ timer = NoTimer
    /\ saved = NoFiles
    /\ view = TRUE
    /\ drawn = NoFiles
    /\ resumes = 0
    /\ calls = NoCalls
    /\ activeFilePath = NoActive
    /\ RankingIdle
    /\ SessionIdle
    /\ frecency = Zero
    /\ pre = NoFiles
    /\ orig = NoFiles
    /\ lastOp = Op("init", "")

\* The clock advances: up to LiveEnd, and on to the deadline of a pending
\* timeout.
LiveTick ==
    /\ Awake \/ (timer # NoTimer /\ now < timer)
    /\ now' = now + TickMs
    /\ calls' = NoCalls
    /\ UNCHANGED <<files, maxAge, recordOnEveryVisit, openInLeaf, leaves,
                   timer, saved, view, drawn, resumes, activeFilePath>>
    /\ lastOp' = Op("tick", "")
    /\ FunctionLevelUnchanged

LiveVisit(path) == Awake /\ RecordVisit(path)

LiveRename(oldPath, newPath) == Awake /\ HandleRename(oldPath, newPath)

LiveDelete(path) == Awake /\ HandleDelete(path)

LiveRemove(path) == Awake /\ RemoveEntry(path)

LiveClear == Awake /\ ClearData

LiveMaxAgeInput(value) == Awake /\ MaxAgeInput(value)

LiveApplyClick == Awake /\ ApplyClick

LiveNext ==
    \/ LiveTick
    \/ \E p \in Paths : LiveVisit(p)
    \/ \E o \in Paths, n \in Paths : LiveRename(o, n)
    \/ \E p \in Paths : LiveDelete(p)
    \/ \E p \in Paths : LiveRemove(p)
    \/ LiveClear
    \/ \E v \in LiveMaxAgeInputs : LiveMaxAgeInput(v)
    \/ LiveApplyClick
    \/ ApplyDone
    \/ Resume
    \/ TimerFire

\* Time passes, and a timeout that is due runs (setTimeout, utils.ts).
LiveFairness == WF_vars(LiveTick) /\ WF_vars(TimerFire)

LiveSpec == LiveInit /\ [][LiveNext]_vars /\ LiveFairness

(***************************************************************************)
(* C1: for every record set and every maxAge > 0, right after applyAging   *)
(* returns the sum of the scores still in the set is at most maxAge.       *)
(***************************************************************************)
C1_AgingCeiling ==
    (Aged /\ maxAge > 0) => Leq(getTotalScore(files), Num(maxAge))

C1_Witness ==
    /\ Aged /\ maxAge > 0
    /\ Less(Num(maxAge), getTotalScore(pre))
    /\ files # NoFiles

(***************************************************************************)
(* C2: starting from the empty record set with maxAge > 0, after any       *)
(* sequence of recordVisit, handleRename, handleDelete, removeEntry and    *)
(* clearData the sum of the scores is at most maxAge; recordVisit ages     *)
(* after the mutation and before the save and the redraw, so neither the   *)
(* record set handed to saveData nor the one a redraw reads has a total    *)
(* above maxAge.                                                           *)
(***************************************************************************)
C2_CeilingAlways ==
    maxAge > 0 =>
        /\ Leq(getTotalScore(files), Num(maxAge))
        /\ Leq(getTotalScore(saved), Num(maxAge))
        /\ Leq(getTotalScore(drawn), Num(maxAge))

C2_Witness ==
    /\ maxAge > 0
    /\ lastOp[1] = "timerFire"
    /\ \E p \in DOMAIN files : files[p].score[2] # 1
    /\ saved = files
    /\ drawn = files

(***************************************************************************)
(* C3: when the sum of the scores is at most maxAge before the call        *)
(* (equality included) applyAging changes nothing: same keys, same scores, *)
(* same lastAccess.                                                        *)
(***************************************************************************)
C3_NoOpBelowCeiling ==
    (Aged /\ Leq(getTotalScore(pre), Num(maxAge))) => files = pre

C3_Witness ==
    /\ Aged /\ maxAge > 0
    /\ pre # NoFiles
    /\ getTotalScore(pre) = Num(maxAge)
    /\ files = pre

PostScale(p) ==
    Mul(pre[p].score, AgingScale(maxAge, getTotalScore(pre)))

C5_PruneBelowOne ==
    (Aged /\ maxAge > 0 /\ Less(Num(maxAge), getTotalScore(pre))) =>
        \A p \in DOMAIN pre :
            /\ (p \notin DOMAIN files) <=> (PostScale(p)[1] < PostScale(p)[2])
            /\ (p \in DOMAIN files) => files[p].score = PostScale(p)

C5_Witness ==
    /\ Aged /\ maxAge > 0
    /\ Less(Num(maxAge), getTotalScore(pre))
    /\ \E p \in DOMAIN pre : PostScale(p) = <<1, 1>> /\ p \in DOMAIN files
    /\ \E p \in DOMAIN pre : p \notin DOMAIN files

(***************************************************************************)
(* C6: two records that both survive keep the ratio of their scores        *)
(* (a_after * b_before = b_after * a_before), through any number of        *)
(* consecutive aging passes.                                               *)
(***************************************************************************)
C6_RatioPreserved ==
    \A p \in DOMAIN files : \A q \in DOMAIN files :
        /\ Mul(files[p].score, pre[q].score) = Mul(files[q].score, pre[p].score)
        /\ Mul(files[p].score, orig[q].score) = Mul(files[q].score, orig[p].score)

C6_Witness ==
    /\ Aged
    /\ files # pre /\ pre # orig
    /\ \E p \in DOMAIN files : \E q \in DOMAIN files :
           p # q /\ orig[p].score # orig[q].score

(***************************************************************************)
(* C7: for every maxAge <= 0 applyAging is a no-op: nothing is scaled,     *)
(* nothing is deleted.                                                     *)
(***************************************************************************)
C7_NonPositiveMaxAgeNoOp ==
    (Aged /\ maxAge <= 0) => files = pre

C7_Witness ==
    /\ Aged /\ maxAge < 0
    /\ pre # NoFiles
    /\ files = pre

(***************************************************************************)
(* C8: with elapsed = now - lastAccess, getFrecency returns score*4 when   *)
(* elapsed < 3,600,000 (a negative elapsed included), score*2 when         *)
(* 3,600,000 <= elapsed < 86,400,000, score/2 when 86,400,000 <= elapsed < *)
(* 604,800,000 and score/4 when elapsed >= 604,800,000; exactly one hour,  *)
(* day or week falls in the later bucket.                                  *)
(***************************************************************************)
C8_Elapsed == now - files["a.md"].lastAccess

C8_FrecencyBuckets ==
    lastOp[1] = "getFrecency" =>
        LET score == files["a.md"].score
        IN  /\ C8_Elapsed < 3600000 => frecency = Mul(score, Num(4))
            /\ (3600000 <= C8_Elapsed /\ C8_Elapsed < 86400000) =>
                   frecency = Mul(score, Num(2))
            /\ (86400000 <= C8_Elapsed /\ C8_Elapsed < 604800000) =>
                   Mul(frecency, Num(2)) = score
            /\ 604800000 <= C8_Elapsed => Mul(frecency, Num(4)) = score

C8_Witness ==
    /\ lastOp[1] = "getFrecency"
    /\ C8_Elapsed = 3600000
    /\ frecency = Mul(files["a.md"].score, Num(2))
    /\ files["a.md"].score[2] # 1

(***************************************************************************)
(* C9: when recordOnEveryVisit is false and the key is already in          *)
(* openInLeaf, recordVisit(key) leaves the record set unchanged (no record *)
(* created, no score or lastAccess changed, no aging) and schedules no     *)
(* save and no redraw.                                                     *)
(***************************************************************************)
C9_TabSwitchChangesNothing ==
    [][\A p \in Paths :
          (IsVisitOf(lastOp', p) /\ ~recordOnEveryVisit
              /\ p \in openInLeaf) =>
                /\ files' = files
                /\ timer' = timer
                /\ saved' = saved
                /\ calls' = NoCalls]_vars

C9_Witness ==
    \E p \in Paths :
        /\ IsVisitOf(lastOp, p)
        /\ ~recordOnEveryVisit
        /\ view
        /\ p \in DOMAIN files
        /\ calls = NoCalls
        /\ timer = NoTimer

(***************************************************************************)
(* C10: with recordOnEveryVisit = false, a recordVisit(K) leaves K in the  *)
(* open-set, a recordVisit(K) made while K is in the open-set leaves K's   *)
(* record unchanged, the layout-change handler removes from the open-set   *)
(* the keys no leaf shows any more, and a recordVisit(K) made while K is   *)
(* not in the open-set counts.                                             *)
(***************************************************************************)
C10_ScoreOf(f, p) == IF p \in DOMAIN f THEN f[p].score ELSE Zero

C10_Suppressed(p) ==
    /\ p \in openInLeaf'
    /\ p \in openInLeaf => C10_ScoreOf(files', p) = C10_ScoreOf(files, p)

C10_ClosedAreRemoved ==
    lastOp'[1] = "layoutChange" => \A p \in openInLeaf' : p \in leaves'

\* As amended: the counted visit adds 1 and applyAging then runs, so the
\* score ends exactly 1 higher when aging does not fire; when it fires the
\* incremented score is scaled down by aging's factor, or K is pruned.
C10_TabSwitchSuppression ==
    [][/\ C10_ClosedAreRemoved
       /\ \A p \in Paths :
            (IsVisitOf(lastOp', p) /\ ~recordOnEveryVisit) =>
                /\ C10_Suppressed(p)
                /\ p \notin openInLeaf =>
                     LET inc   == Add(C10_ScoreOf(files, p), One)
                         total == Add(getTotalScore(files), One)
                     IN  IF maxAge <= 0 \/ Leq(total, Num(maxAge))
                         THEN C10_ScoreOf(files', p) = inc
                         ELSE \/ p \notin DOMAIN files'
                              \/ /\ Less(files'[p].score, inc)
                                 /\ files'[p].score =
                                      Mul(inc, AgingScale(maxAge, total))]_vars

\* As claimed: the counted visit leaves K's score exactly 1 higher.
C10_AsClaimed ==
    [][/\ C10_ClosedAreRemoved
       /\ \A p \in Paths :
            (IsVisitOf(lastOp', p) /\ ~recordOnEveryVisit) =>
                /\ C10_Suppressed(p)
                /\ p \notin openInLeaf =>
                     C10_ScoreOf(files', p) =
                         Add(C10_ScoreOf(files, p), One)]_vars

C10_Witness ==
    \E p \in Paths :
        /\ IsVisitOf(lastOp, p)
        /\ ~recordOnEveryVisit
        /\ p \in DOMAIN files
        /\ files[p].score = Num(2)
        /\ calls.debouncedPersist = 1

(***************************************************************************)
(* C11: after every recordVisit(key), counted or not and for either value  *)
(* of recordOnEveryVisit, key is in openInLeaf and no other key's          *)
(* membership in openInLeaf has changed.                                   *)
(***************************************************************************)
C11_VisitMarksOpen ==
    [][\A p \in Paths :
          IsVisitOf(lastOp', p) =>
              /\ p \in openInLeaf'
              /\ \A q \in Keys \ {p} :
                     (q \in openInLeaf') <=> (q \in openInLeaf)]_vars

C11_Witness ==
    \E p \in Paths :
        /\ lastOp = Op("recordVisit", <<p, TRUE>>)
        /\ ~recordOnEveryVisit
        /\ calls = NoCalls
        /\ p \in openInLeaf
        /\ \E q \in openInLeaf : q # p

(***************************************************************************)
(* C12: a counted recordVisit(key, now) on which aging does not fire       *)
(* (total after the increment <= maxAge, or maxAge <= 0) creates           *)
(* {score: 1, lastAccess: now} for an untracked key, otherwise adds        *)
(* exactly 1 to the score and sets lastAccess to now; every other record   *)
(* is left unchanged.                                                      *)
(***************************************************************************)
C12_NoAging ==
    maxAge <= 0 \/ Leq(Add(getTotalScore(files), One), Num(maxAge))

C12_CountedVisit ==
    [][\A p \in Paths :
          (/\ IsVisitOf(lastOp', p)
           /\ recordOnEveryVisit \/ p \notin openInLeaf
           /\ C12_NoAging) =>
              /\ DOMAIN files' = DOMAIN files \cup {p}
              /\ files'[p].score =
                     IF p \in DOMAIN files
                     THEN Add(files[p].score, One) ELSE One
              /\ files'[p].lastAccess = now
              /\ \A q \in DOMAIN files \ {p} : files'[q] = files[q]]_vars

C12_Witness ==
    \E p \in Paths :
        /\ IsVisitOf(lastOp, p)
        /\ calls.debouncedPersist = 1
        /\ p \in DOMAIN files
        /\ files[p] = FileEntry(Num(2), now)
        /\ now > 0
        /\ \E q \in DOMAIN files : q # p /\ files[q].lastAccess < now

(***************************************************************************)
(* C13: with recordOnEveryVisit = true every recordVisit(key) counts       *)
(* (score incremented or record created, save scheduled), whether or not   *)
(* key is already in openInLeaf, repeated tab switches included.           *)
(***************************************************************************)
C13_Incremented(p) ==
    LET inc   == IF p \in DOMAIN files THEN Add(files[p].score, One) ELSE One
        total == Add(getTotalScore(files), One)
    IN  \/ /\ p \in DOMAIN files'
           /\ files'[p].lastAccess = now
           /\ files'[p].score =
                  IF C12_NoAging THEN inc
                  ELSE Mul(inc, AgingScale(maxAge, total))
        \/ /\ p \notin DOMAIN files'
           /\ ~C12_NoAging

C13_EveryVisitCounts ==
    [][\A p \in Paths :
          (IsVisitOf(lastOp', p) /\ recordOnEveryVisit) =>
              /\ calls'.debouncedPersist = 1
              /\ timer' = now + DebounceMs
              /\ C13_Incremented(p)]_vars

C13_Witness ==
    \E p \in Paths :
        /\ lastOp = Op("recordVisit", <<p, TRUE>>)
        /\ recordOnEveryVisit
        /\ calls.debouncedPersist = 1
        /\ p \in DOMAIN files
        /\ files[p].score = Num(2)

(***************************************************************************)
(* C15: in every state reachable from the empty record set through         *)
(* recordVisit, handleRename, handleDelete, removeEntry, clearData and     *)
(* applyAging, every record present has score >= 1.                        *)
(***************************************************************************)
C15_PresentScoreAtLeastOne ==
    \A p \in DOMAIN files : Leq(One, files[p].score)

C15_Witness ==
    \E p \in Paths :
        /\ IsVisitOf(lastOp, p)
        /\ maxAge > 0
        /\ DOMAIN files = {p}
        /\ files[p].score = Rat(81, 40)

(***************************************************************************)
(* C16: under a non-decreasing clock the lastAccess of a key's record      *)
(* never decreases from one state to the next while the record exists,     *)
(* across recordVisit, applyAging and handleRename (a rename of another    *)
(* key onto this key included).                                            *)
(***************************************************************************)
C16_LastAccessMonotonic ==
    [][\A p \in DOMAIN files \cap DOMAIN files' :
          files'[p].lastAccess >= files[p].lastAccess]_vars

(***************************************************************************)
(* C17: handleRename(oldKey, newKey) with both keys tracked merges the     *)
(* two records: newKey's score is the sum of the two scores, its           *)
(* lastAccess the larger of the two, and oldKey is absent.                 *)
(***************************************************************************)
C17_Max(x, y) == IF x >= y THEN x ELSE y

C17_RenameMerges ==
    [][\A o \in Paths, n \in Paths :
          (/\ IsRenameOf(lastOp', o, n)
           /\ o # n
           /\ o \in DOMAIN files
           /\ n \in DOMAIN files) =>
              /\ o \notin DOMAIN files'
              /\ n \in DOMAIN files'
              /\ files'[n].score = Add(files[o].score, files[n].score)
              /\ files'[n].lastAccess =
                     C17_Max(files[o].lastAccess, files[n].lastAccess)]_vars

(***************************************************************************)
(* C20: handleRename(oldKey, newKey) of a tracked oldKey that is in        *)
(* openInLeaf removes oldKey from openInLeaf and adds newKey, so that a    *)
(* later recordVisit(newKey) with recordOnEveryVisit = false is a tab      *)
(* switch and does not count.                                              *)
(***************************************************************************)
C20_RenameMovesOpenMark ==
    [][\A o \in Paths, n \in Paths :
          (/\ IsRenameOf(lastOp', o, n)
           /\ o # n
           /\ o \in DOMAIN files
           /\ o \in openInLeaf) =>
              /\ o \notin openInLeaf'
              /\ n \in openInLeaf']_vars

(***************************************************************************)
(* C14: starting from an empty record set with maxAge = N, one counted     *)
(* visit to each of N+1 distinct keys leaves the record set empty: after   *)
(* the N-th visit the set holds N records of score 1 (the visited keys),   *)
(* and the (N+1)-th visit makes aging fire and prune every record, the one *)
(* just visited included.                                                  *)
(***************************************************************************)
C14_Visited == Cardinality(openInLeaf)

C14_ScenarioEndsEmpty ==
    /\ C14_Visited <= maxAge =>
           /\ DOMAIN files = openInLeaf
           /\ \A p \in DOMAIN files : files[p].score = One
    /\ C14_Visited = maxAge + 1 => files = NoFiles

C14_Witness ==
    /\ maxAge = ScenarioMaxAge
    /\ C14_Visited = maxAge + 1
    /\ lastOp[1] = "recordVisit"
    /\ calls.debouncedPersist = 1
    /\ files = NoFiles

(***************************************************************************)
(* C18: handleRename(oldKey, newKey) with oldKey tracked and newKey not    *)
(* tracked leaves newKey with exactly oldKey's former score and            *)
(* lastAccess, oldKey absent, and every other record unchanged.            *)
(***************************************************************************)
C18_RenameMovesRecord ==
    [][\A o \in Keys, n \in Keys :
          (/\ IsRenameOf(lastOp', o, n)
           /\ o \in DOMAIN files
           /\ n \notin DOMAIN files) =>
              /\ DOMAIN files' = (DOMAIN files \ {o}) \cup {n}
              /\ o \notin DOMAIN files'
              /\ files'[n] = files[o]
              /\ \A q \in DOMAIN files \ {o} : files'[q] = files[q]]_vars

C18_Witness ==
    \E o \in Keys, n \in Keys, q \in Keys :
        /\ IsRenameOf(lastOp, o, n)
        /\ o # n /\ o # q /\ n # q
        /\ DOMAIN files = {n, q}
        /\ files[n] = FileEntry(Num(2), 1)
        /\ files[q] = FileEntry(One, 0)
        /\ calls.persistData = 1
        /\ saved = files

(***************************************************************************)
(* C19: handleRename(oldKey, newKey) with oldKey not tracked does nothing: *)
(* no record is created at newKey, the record set and openInLeaf are       *)
(* unchanged, and nothing is saved or redrawn.                             *)
(***************************************************************************)
C19_RenameUntrackedNoOp ==
    [][\A o \in Paths, n \in Paths :
          (IsRenameOf(lastOp', o, n) /\ o \notin DOMAIN files) =>
              /\ files' = files
              /\ openInLeaf' = openInLeaf
              /\ saved' = saved
              /\ drawn' = drawn
              /\ timer' = timer
              /\ calls' = NoCalls]_vars

C19_Witness ==
    \E o \in Paths, n \in Paths :
        /\ IsRenameOf(lastOp, o, n)
        /\ o # n
        /\ calls = NoCalls
        /\ DOMAIN files = {}
        /\ o \in openInLeaf
        /\ timer # NoTimer

(***************************************************************************)
(* C21: handleRename(oldKey, newKey) with oldKey not in openInLeaf never   *)
(* adds newKey to openInLeaf: newKey is in openInLeaf afterwards only if   *)
(* it was there before.                                                    *)
(***************************************************************************)
C21_RenameOfClosedAddsNothing ==
    [][\A o \in Paths, n \in Paths :
          (IsRenameOf(lastOp', o, n) /\ o \notin openInLeaf) =>
              (n \in openInLeaf' => n \in openInLeaf)]_vars

C21_Witness ==
    \E o \in Paths, n \in Paths :
        /\ IsRenameOf(lastOp, o, n)
        /\ o # n
        /\ calls.persistData = 1
        /\ n \in DOMAIN files
        /\ openInLeaf = {}
        /\ n \in leaves

(***************************************************************************)
(* C22: on a rename of a tracked key the view is told of the rename before *)
(* the redraw, so at the redraw the view's active key is never the key     *)
(* that has been renamed away.                                             *)
(***************************************************************************)
C22_ActiveKeyFollowsRename ==
    [][\A o \in Paths, n \in Paths :
          (/\ IsRenameOf(lastOp', o, n)
           /\ o # n
           /\ o \in DOMAIN files
           /\ view) =>
              /\ calls'.redraw = 1
              /\ activeFilePath' # o]_vars

(***************************************************************************)
(* C23: handleRename on a tracked key schedules exactly one debounced save *)
(* and makes no immediate persistData call.                                *)
(***************************************************************************)
C23_RenameSavesDebounced ==
    [][\A o \in Paths, n \in Paths :
          (IsRenameOf(lastOp', o, n) /\ o \in DOMAIN files) =>
              /\ calls'.debouncedPersist = 1
              /\ calls'.persistData = 0]_vars

(***************************************************************************)
(* C24: handleDelete(key) on an untracked key changes nothing and persists *)
(* nothing; on a tracked key it deletes exactly that record, leaves every  *)
(* other record unchanged and persists exactly once.                       *)
(***************************************************************************)
C24_DeleteExactlyOne ==
    [][\A k \in Keys :
          lastOp' = Op("handleDelete", k) =>
              IF k \in DOMAIN files
              THEN /\ DOMAIN files' = DOMAIN files \ {k}
                   /\ \A q \in DOMAIN files' : files'[q] = files[q]
                   /\ calls'.persistData = 1
                   /\ calls'.debouncedPersist = 0
                   /\ saved' = files'
              ELSE /\ files' = files
                   /\ saved' = saved
                   /\ timer' = timer
                   /\ calls' = NoCalls]_vars

C24_Witness ==
    \E k \in Keys, q \in Keys :
        /\ lastOp = Op("handleDelete", k)
        /\ k # q
        /\ DOMAIN files = {q}
        /\ files[q] = FileEntry(Num(2), 1)
        /\ calls.persistData = 1
        /\ saved = files

(***************************************************************************)
(* C25: removeEntry(key) removes the record of key if there is one and     *)
(* does nothing if there is none, leaves every other record unchanged and  *)
(* leaves openInLeaf unchanged.                                            *)
(***************************************************************************)
C25_RemoveEntryOnlyThatRecord ==
    [][\A k \in Keys :
          lastOp' = Op("removeEntry", k) =>
              /\ DOMAIN files' = DOMAIN files \ {k}
              /\ \A q \in DOMAIN files' : files'[q] = files[q]
              /\ openInLeaf' = openInLeaf]_vars

C25_Witness ==
    \E k \in Keys, q \in Keys :
        /\ lastOp = Op("removeEntry", k)
        /\ k # q
        /\ DOMAIN files = {q}
        /\ DOMAIN saved = {k, q}
        /\ files[q] = saved[q]
        /\ k \in openInLeaf
        /\ calls = NoCalls

(***************************************************************************)
(* C26: clearData empties the record set (no key tracked, total score 0)   *)
(* and schedules a debounced save of the emptied state.                    *)
(***************************************************************************)
C26_ClearSchedulesSave ==
    [][lastOp' = Op("clearData", "") =>
          /\ files' = NoFiles
          /\ getTotalScore(files') = Zero
          /\ calls'.debouncedPersist = 1
          /\ timer' = now + DebounceMs]_vars

(***************************************************************************)
(* C27: getSortedEntries returns the entries in order of non-increasing    *)
(* frecency, computed with the same now for all: of every two adjacent     *)
(* entries the earlier one's frecency is at least the later one's.         *)
(***************************************************************************)
RankedFrecency(i) == getFrecency(files[ranking[i]], now)

Ranked == lastOp[1] \in {"redraw", "getSuggestions"}

C27_RankingByFrecency ==
    Ranked =>
        \A i \in 1..(Len(ranking) - 1) :
            Leq(RankedFrecency(i + 1), RankedFrecency(i))

C27_Witness ==
    /\ lastOp[1] = "redraw"
    /\ Len(ranking) = 3
    /\ keyOrder = <<"a.md", "b.md", "c.md">>
    /\ ranking = <<"c.md", "b.md", "a.md">>
    /\ Less(RankedFrecency(2), RankedFrecency(1))
    /\ Less(RankedFrecency(3), RankedFrecency(2))

(***************************************************************************)
(* C28: of two returned entries with equal frecency the one with the       *)
(* larger lastAccess comes first, and with equal lastAccess the one with   *)
(* the lexicographically smaller key, whatever the order of insertion.     *)
(***************************************************************************)
C28_KeyIndex(path) ==
    CASE path = "a.md" -> 1
      [] path = "b.md" -> 2
      [] path = "c.md" -> 3

C28_TieBreak ==
    Ranked =>
        \A i \in 1..(Len(ranking) - 1) :
            RankedFrecency(i) = RankedFrecency(i + 1) =>
                LET x == files[ranking[i]]
                    y == files[ranking[i + 1]]
                IN  \/ x.lastAccess > y.lastAccess
                    \/ /\ x.lastAccess = y.lastAccess
                       /\ C28_KeyIndex(ranking[i]) < C28_KeyIndex(ranking[i + 1])

(***************************************************************************)
(* C29: the bounded ranking of the panel has at most maxItems entries and  *)
(* is the first maxItems entries of the unbounded ranking; the unbounded   *)
(* ranking the search modal asks for holds every tracked record that is    *)
(* not excluded, without truncation.                                       *)
(***************************************************************************)
C29_Unbounded == RankAll(files, keyOrder, excludePaths, now)

C29_BoundedAndUnbounded ==
    /\ lastOp[1] = "redraw" =>
           /\ Len(ranking) <= maxItems
           /\ ranking = SubSeq(C29_Unbounded, 1, Len(ranking))
           /\ Len(ranking) = maxItems \/ ranking = C29_Unbounded
    /\ lastOp[1] = "getSuggestions" => ranking = C29_Unbounded

(***************************************************************************)
(* C30: the ranking query leaves out exactly the tracked keys that match   *)
(* the exclude pattern when the pattern is non-empty and compiles; when    *)
(* the pattern is empty or whitespace only, or does not compile, no key is *)
(* filtered out and the query returns.                                     *)
(***************************************************************************)
C30_Filters ==
    /\ Trim(excludePaths) # ""
    /\ excludePaths # "["

C30_Expected ==
    IF C30_Filters
    THEN {p \in DOMAIN files : ~RegExpTest(excludePaths, p)}
    ELSE DOMAIN files

C30_Returned == {ranking[i] : i \in 1..Len(ranking)}

C30_ExcludePattern ==
    Ranked =>
        /\ C30_Returned \subseteq C30_Expected
        /\ Len(ranking) = Cardinality(C30_Returned)
        /\ \/ C30_Returned = C30_Expected
           \/ Len(ranking) = maxItems

C30_Witness ==
    /\ lastOp[1] = "redraw"
    /\ excludePaths = "^a"
    /\ DOMAIN files = Keys
    /\ maxItems = MaxRankItems
    /\ C30_Returned = {"b.md", "c.md"}

C34_AgingFrame(p) ==
    /\ DOMAIN files' \subseteq DOMAIN files \cup {p}
    /\ \A q \in DOMAIN files' \ {p} :
           /\ files'[q].lastAccess = files[q].lastAccess
           /\ Leq(files'[q].score, files[q].score)
    /\ p \in DOMAIN files' =>
           Leq(files'[p].score,
               Add(IF p \in DOMAIN files THEN files[p].score ELSE Zero, One))

C34_LastAccessOnlyByVisit ==
    [][/\ \A p \in Paths : IsVisitOf(lastOp', p) => C34_AgingFrame(p)
       /\ \A q \in DOMAIN files \cap DOMAIN files' :
              files'[q].lastAccess # files[q].lastAccess =>
                  \/ /\ IsVisitOf(lastOp', q)
                     /\ calls'.debouncedPersist = 1
                     /\ files'[q].lastAccess = now
                  \/ \E o \in Paths : IsRenameOf(lastOp', o, q)]_vars

C34_Witness ==
    \E p \in Paths, q \in Paths :
        /\ p # q
        /\ IsVisitOf(lastOp, p)
        /\ calls.debouncedPersist = 1
        /\ maxAge > 0
        /\ now > 0
        /\ DOMAIN files = {p, q}
        /\ files[p] = FileEntry(Rat(27, 20), now)
        /\ files[q] = FileEntry(Rat(27, 20), 0)

(***************************************************************************)
(* C35: the layout-change handler only removes from openInLeaf: afterwards *)
(* openInLeaf is its former value intersected with the paths the host has  *)
(* open in some leaf; it adds no key and changes no record.                *)
(***************************************************************************)
C35_LayoutChangeOnlyRemoves ==
    [][lastOp' = Op("layoutChange", "") =>
          /\ openInLeaf' = openInLeaf \cap leaves'
          /\ openInLeaf' \subseteq openInLeaf
          /\ files' = files
          /\ saved' = saved]_vars

C35_Witness ==
    \E p \in Paths, q \in Paths :
        /\ lastOp = Op("layoutChange", "")
        /\ p # q
        /\ DOMAIN files = {p, q}
        /\ openInLeaf = {q}
        /\ leaves = {q}

(***************************************************************************)
(* C36: with recordOnEveryVisit = false, once a key has lost its record    *)
(* while still in openInLeaf, recordVisit of that key creates no record    *)
(* until the key has been removed from openInLeaf.                         *)
(***************************************************************************)
C36_NoRecordWhileOpen ==
    [][\A p \in Paths :
          (/\ IsVisitOf(lastOp', p)
           /\ ~recordOnEveryVisit
           /\ p \in openInLeaf
           /\ p \notin DOMAIN files) =>
              /\ p \notin DOMAIN files'
              /\ files' = files
              /\ p \in openInLeaf']_vars

C36_Witness ==
    \E p \in Paths :
        /\ lastOp = Op("recordVisit", <<p, TRUE>>)
        /\ ~recordOnEveryVisit
        /\ p \notin DOMAIN files
        /\ p \in DOMAIN saved
        /\ p \in openInLeaf
        /\ timer # NoTimer

(***************************************************************************)
(* C38: handleRename conserves the total score: for every oldKey and       *)
(* newKey, newKey tracked or not and oldKey = newKey included, the sum of  *)
(* the scores after the call is the sum before, and the number of tracked  *)
(* keys goes down by one at most.                                          *)
(***************************************************************************)
C38_RenameConservesTotal ==
    [][\A o \in Paths, n \in Paths :
          IsRenameOf(lastOp', o, n) =>
              /\ getTotalScore(files') = getTotalScore(files)
              /\ Cardinality(DOMAIN files') >= Cardinality(DOMAIN files) - 1]_vars

(***************************************************************************)
(* C33: initData never fails on absent or malformed data: with the blob    *)
(* null, or its files field missing, null, not an object or an array, the  *)
(* record set starts empty; settings that are missing take the defaults.   *)
(***************************************************************************)
C33_Malformed ==
    \/ raw.kind = "null"
    \/ raw.files.kind \in {"undefined", "null", "string", "array"}

C33_Stored(name) ==
    /\ raw.kind = "object"
    /\ raw.settings.kind = "object"
    /\ name \in DOMAIN raw.settings.value

C33_InitDataRecovers ==
    /\ phase = "loading" => ENABLED InitDataDone
    /\ lastOp = Op("initData", "") =>
           /\ files = IF C33_Malformed THEN NoFiles ELSE raw.files.value
           /\ ~C33_Stored("maxAge") => maxAge = DefaultMaxAge
           /\ ~C33_Stored("recordOnEveryVisit") =>
                  recordOnEveryVisit = DefaultRecordOnEveryVisit
           /\ C33_Stored("maxAge") => maxAge = raw.settings.value["maxAge"]

C33_Witness ==
    /\ lastOp = Op("initData", "")
    /\ raw.kind = "object"
    /\ raw.files.kind = "array"
    /\ raw.settings.kind = "object"
    /\ DOMAIN raw.settings.value = {"recordOnEveryVisit"}
    /\ files = NoFiles
    /\ maxAge = DefaultMaxAge
    /\ recordOnEveryVisit

(***************************************************************************)
(* C39: no visit, rename or delete handler and no save runs before         *)
(* initData has completed: while loadData is pending nothing is recorded   *)
(* and nothing is saved, so a save never writes the empty record set over  *)
(* the persisted data and the load never overwrites recorded visits.       *)
(***************************************************************************)
C39_Handlers == {"recordVisit", "handleRename", "handleDelete", "timerFire"}

C39_NothingBeforeLoad ==
    [][/\ lastOp'[1] \in C39_Handlers => phase = "ready"
       /\ phase' = "loading" =>
              /\ files' = NoFiles
              /\ saved' = NoFiles
              /\ timer' = NoTimer
              /\ calls' = NoCalls
       /\ lastOp' = Op("initData", "") => files = NoFiles]_vars

C39_Witness ==
    /\ phase = "ready"
    /\ IsVisitOf(lastOp, "a.md")
    /\ raw.kind = "object"
    /\ raw.files.kind = "object"
    /\ DOMAIN raw.files.value = {"a.md"}
    /\ files["a.md"].score = Num(2)
    /\ saved = NoFiles
    /\ timer # NoTimer

(***************************************************************************)
(* C40: in the settings tab a positive max age below the current total is  *)
(* only recorded as pending: maxAge, the records and the saved blob stay   *)
(* as they are until Apply, which sets maxAge to the pending value, runs   *)
(* applyAging once and saves.  A value at or above the total is applied at *)
(* once, an invalid or non-positive entry clears the pending value, and    *)
(* maxAge never changes without applyAging running in the same step.       *)
(***************************************************************************)
\* The positive integer an entry stands for, 0 for an invalid or
\* non-positive entry.
C40_Entered(value) ==
    CASE value = <<" ", "3", ".", "9">> -> 3
      [] value = <<"9", "x">> -> 9
      [] OTHER -> 0

C40_InputStep ==
    LET n == C40_Entered(lastOp'[2])
        total == getTotalScore(files)
    IN  lastOp'[1] = "maxAgeInput" =>
            /\ n > 0 /\ Less(Num(n), total) =>
                   /\ pendingMaxAge' = n
                   /\ UNCHANGED <<maxAge, files, saved, timer>>
                   /\ calls' = NoCalls
            /\ n > 0 /\ ~Less(Num(n), total) =>
                   /\ pendingMaxAge' = NoPending
                   /\ maxAge' = n
                   /\ files' = files
                   /\ saved' = files'
            /\ n = 0 =>
                   /\ pendingMaxAge' = NoPending
                   /\ UNCHANGED <<maxAge, files, saved, timer>>

C40_ApplyStep ==
    lastOp'[1] = "applyClick" =>
        IF pendingMaxAge = NoPending
        THEN UNCHANGED <<maxAge, files, saved>>
        ELSE /\ maxAge' = pendingMaxAge
             /\ files' = applyAging(files, pendingMaxAge)
             /\ saved' = files'

C40_MaxAgeNeedsApply ==
    [][/\ C40_InputStep
       /\ C40_ApplyStep
       /\ maxAge' # maxAge =>
              /\ lastOp'[1] \in {"maxAgeInput", "applyClick"}
              /\ files' = applyAging(files, maxAge')
              /\ Leq(getTotalScore(files'), Num(maxAge'))]_vars

C40_Witness ==
    /\ lastOp = Op("applyClick", "")
    /\ phase = "applying"
    /\ pendingMaxAge = 3
    /\ maxAge = 3
    /\ DOMAIN files = Paths
    /\ \A p \in Paths : files[p].score = <<27, 20>>
    /\ saved = files

(***************************************************************************)
(* C37: eventual persistence.  Once the host events have stopped, the      *)
(* pending debounce timeout fires and from then on the last record set     *)
(* handed to saveData is the record set in memory, also when an immediate  *)
(* persistData came while a debounced save was pending.                    *)
(***************************************************************************)
C37_EventuallyPersisted == <>[](saved = files /\ timer = NoTimer)

C37_Witness ==
    /\ lastOp = Op("timerFire", "")
    /\ ~Awake
    /\ saved = files
    /\ DOMAIN files = {"b.md"}
    /\ maxAge = 3
    /\ resumes = 1

====
